---- MODULE Spec2Model ----
(***************************************************************************)
(* HelloClass of examples/HelloWorld/HelloWorld.cpp: a class with three    *)
(* public fields, one private field, three constructors, an empty          *)
(* destructor, two virtual methods and one static method that write to     *)
(* std::cout.  The model keeps the live instances, the text written to     *)
(* standard output so far, the number of calls made, and what the caller did last.                   *)
(***************************************************************************)
EXTENDS Integers, Sequences, FiniteSets, TLC

\* ---------------------------------------------------------------- bounds
MaxInst  == 2       \* storage slots an instance can be constructed in
MaxCalls == 4       \* calls the caller makes in one run

Ids == 1..MaxInst

\* ------------------------------------------------------------ value sets
\* A double is modelled by its decimal value (-1)^neg * m * 10^e.
Dbl(neg, m, e) == [neg |-> neg, m |-> m, e |-> e]

\* int -> double conversion of `this->three = 3`
IntToDouble(n) == IF n < 0 THEN Dbl(TRUE, -n, 0) ELSE Dbl(FALSE, n, 0)

Int64Vals  == {-12, 105}                    \* arguments / writes of `one`
Int32Vals  == {-7}                          \* arguments / writes of `two`
DoubleVals == {Dbl(FALSE, 3, 0), Dbl(FALSE, 25, -1)}   \* 3 and 2.5
PrivVals   == {4, -1}                       \* contents storage may hold for thisIsPrivate
Texts      == {"test", ""}                  \* non-null C strings passed to Say

NoObj  == [none |-> TRUE]
NoText == ""     \* SayHello never inserts the empty text

VARIABLES heap, out, ncalls, lastHello, last
vars == <<heap, out, ncalls, lastHello, last>>

Live == {i \in Ids : heap[i] # NoObj}

\* ------------------------------------------------------------ formatting
DigitChar(d) ==
  CASE d = 0 -> "0" [] d = 1 -> "1" [] d = 2 -> "2" [] d = 3 -> "3" [] d = 4 -> "4"
    [] d = 5 -> "5" [] d = 6 -> "6" [] d = 7 -> "7" [] d = 8 -> "8" [] d = 9 -> "9"

RECURSIVE NatToString(_)
NatToString(n) ==
  IF n < 10 THEN DigitChar(n) ELSE NatToString(n \div 10) \o DigitChar(n % 10)

\* operator<< for int64_t / int32_t with the stream's default flags
IntToString(n) == IF n < 0 THEN "-" \o NatToString(-n) ELSE NatToString(n)

RECURSIVE Pow10(_)
Pow10(k) == IF k = 0 THEN 1 ELSE 10 * Pow10(k - 1)

RECURSIVE NumDigits(_)
NumDigits(n) == IF n < 10 THEN 1 ELSE 1 + NumDigits(n \div 10)

RECURSIVE StripZeros(_)
StripZeros(n) == IF n # 0 /\ n % 10 = 0 THEN StripZeros(n \div 10) ELSE n

RECURSIVE Zeros(_)
Zeros(k) == IF k <= 0 THEN "" ELSE "0" \o Zeros(k - 1)

\* n written with at least w digits, zero-filled on the left
PadLeft(n, w) == Zeros(w - NumDigits(n)) \o NatToString(n)

\* the stream's default precision
Precision == 6

\* m rounded to Precision significant digits (half to even), with the digits dropped
RoundSig(m) ==
  LET nd   == NumDigits(m)
      drop == IF nd > Precision THEN nd - Precision ELSE 0
      q    == m \div Pow10(drop)
      r    == m % Pow10(drop)
      half == Pow10(drop) \div 2
      up   == drop > 0 /\ (r > half \/ (r = half /\ q % 2 = 1))
      q2   == IF up THEN q + 1 ELSE q
  IN  IF NumDigits(q2) > NumDigits(q)
        THEN [q |-> q2 \div 10, drop |-> drop + 1]
        ELSE [q |-> q2, drop |-> drop]

\* operator<< for double with the default floatfield: printf's %g at precision 6
DoubleToString(d) ==
  LET sign == IF d.neg THEN "-" ELSE "" IN
  IF d.m = 0 THEN sign \o "0"
  ELSE
    LET rs == RoundSig(d.m)
        X  == NumDigits(rs.q) - 1 + rs.drop + d.e       \* decimal exponent
        q  == StripZeros(rs.q)
        k  == NumDigits(q)
        sci ==
          LET lead == q \div Pow10(k - 1)
              rest == q % Pow10(k - 1)
              frac == IF k = 1 THEN "" ELSE "." \o PadLeft(rest, k - 1)
              ax   == IF X < 0 THEN -X ELSE X
          IN  NatToString(lead) \o frac \o "e" \o (IF X < 0 THEN "-" ELSE "+") \o PadLeft(ax, 2)
        fix ==
          IF X < 0 THEN "0." \o Zeros(-X - 1) \o NatToString(q)
          ELSE IF k <= X + 1 THEN NatToString(q * Pow10(X + 1 - k))
          ELSE NatToString(q \div Pow10(k - X - 1)) \o "." \o PadLeft(q % Pow10(k - X - 1), k - X - 1)
    IN  sign \o (IF X < -4 \/ X >= Precision THEN sci ELSE fix)

\* std::endl: a newline (and a flush, which leaves no state behind)
Endl == "\n"

\* the text SayHello inserts for an object o
SayHelloText(o) ==
  "Hello, from HelloClass with\none: " \o IntToString(o.one) \o ", two: " \o IntToString(o.two)
    \o ", and three: " \o DoubleToString(o.three) \o Endl

\* the text Say inserts for the C string value
SayText(value) == value \o Endl

StaticHelloText == "Hello, from HelloClass::StaticHello!" \o Endl

\* ------------------------------------------------------------- the calls
\* what the caller did last: the call, its receiver, its arguments, and (for the
\* constructors that leave members unassigned) what the storage held there
Call(op, id, args, raw) == [op |-> op, id |-> id, args |-> args, raw |-> raw]

Init ==
  /\ heap = [i \in Ids |-> NoObj]
  /\ out = ""
  /\ ncalls = 0
  /\ lastHello = [i \in Ids |-> NoText]
  /\ last = Call("none", 0, <<>>, <<>>)

\* a default constructor that forgets thisIsPrivate, as the other two do
Construct0NoPrivate(i) ==
  /\ heap[i] = NoObj
  /\ ncalls < MaxCalls
  /\ \E raw4 \in PrivVals :
       heap' = [heap EXCEPT ![i] =
                  [one |-> 1, two |-> 2, three |-> IntToDouble(3), thisIsPrivate |-> raw4]]
  /\ ncalls' = ncalls + 1
  /\ lastHello' = [lastHello EXCEPT ![i] = NoText]
  /\ last' = Call("Construct0", i, <<>>, <<>>)
  /\ UNCHANGED out

\* HelloClass::HelloClass()
Construct0(i) ==
  /\ heap[i] = NoObj
  /\ heap' = [heap EXCEPT ![i] =
                [one |-> 1, two |-> 2, three |-> IntToDouble(3), thisIsPrivate |-> 4]]
  /\ lastHello' = [lastHello EXCEPT ![i] = NoText]
  /\ last' = Call("Construct0", i, <<>>, <<>>)
  /\ ncalls < MaxCalls
  /\ ncalls' = ncalls + 1
  /\ UNCHANGED out

\* a two-argument constructor that gives three and thisIsPrivate their defaults
Construct2Defaults(i, one, two, raw3, raw4) ==
  /\ heap[i] = NoObj
  /\ ncalls < MaxCalls
  /\ heap' = [heap EXCEPT ![i] =
                [one |-> one, two |-> two, three |-> IntToDouble(3), thisIsPrivate |-> 4]]
  /\ ncalls' = ncalls + 1
  /\ lastHello' = [lastHello EXCEPT ![i] = NoText]
  /\ last' = Call("Construct2", i, <<one, two>>, <<raw3, raw4>>)
  /\ UNCHANGED out

\* HelloClass::HelloClass(int64_t one, int32_t two); raw3 and raw4 are what the
\* storage holds where three and thisIsPrivate live
Construct2(i, one, two, raw3, raw4) ==
  /\ heap[i] = NoObj
  /\ heap' = [heap EXCEPT ![i] =
                [one |-> one, two |-> two, three |-> raw3, thisIsPrivate |-> raw4]]
  /\ lastHello' = [lastHello EXCEPT ![i] = NoText]
  /\ last' = Call("Construct2", i, <<one, two>>, <<raw3, raw4>>)
  /\ ncalls < MaxCalls
  /\ ncalls' = ncalls + 1
  /\ UNCHANGED out

\* a three-argument constructor that drops the assignment of three
Construct3NoThree(i, one, two, three, raw4) ==
  /\ heap[i] = NoObj
  /\ ncalls < MaxCalls
  /\ \E raw3 \in DoubleVals :
       heap' = [heap EXCEPT ![i] =
                  [one |-> one, two |-> two, three |-> raw3, thisIsPrivate |-> raw4]]
  /\ ncalls' = ncalls + 1
  /\ lastHello' = [lastHello EXCEPT ![i] = NoText]
  /\ last' = Call("Construct3", i, <<one, two, three>>, <<raw4>>)
  /\ UNCHANGED out

\* HelloClass::HelloClass(int64_t one, int32_t two, double three)
Construct3(i, one, two, three, raw4) ==
  /\ heap[i] = NoObj
  /\ heap' = [heap EXCEPT ![i] =
                [one |-> one, two |-> two, three |-> three, thisIsPrivate |-> raw4]]
  /\ lastHello' = [lastHello EXCEPT ![i] = NoText]
  /\ last' = Call("Construct3", i, <<one, two, three>>, <<raw4>>)
  /\ ncalls < MaxCalls
  /\ ncalls' = ncalls + 1
  /\ UNCHANGED out

\* a destructor that says goodbye
DestroyPrints(i) ==
  /\ heap[i] # NoObj
  /\ ncalls < MaxCalls
  /\ heap' = [heap EXCEPT ![i] = NoObj]
  /\ out' = out \o "Goodbye" \o Endl
  /\ ncalls' = ncalls + 1
  /\ lastHello' = [lastHello EXCEPT ![i] = NoText]
  /\ last' = Call("Destroy", i, <<>>, <<>>)

\* HelloClass::~HelloClass(){} followed by the release of the storage
Destroy(i) ==
  /\ heap[i] # NoObj
  /\ heap' = [heap EXCEPT ![i] = NoObj]
  /\ lastHello' = [lastHello EXCEPT ![i] = NoText]
  /\ last' = Call("Destroy", i, <<>>, <<>>)
  /\ ncalls < MaxCalls
  /\ ncalls' = ncalls + 1
  /\ UNCHANGED out

\* a caller's write to the public member one
SetOne(i, v) ==
  /\ heap[i] # NoObj
  /\ heap' = [heap EXCEPT ![i].one = v]
  /\ lastHello' = [lastHello EXCEPT ![i] = NoText]
  /\ last' = Call("SetOne", i, <<v>>, <<>>)
  /\ ncalls < MaxCalls
  /\ ncalls' = ncalls + 1
  /\ UNCHANGED out

\* two declared static: one storage location shared by every instance
SetTwoShared(i, v) ==
  /\ heap[i] # NoObj
  /\ ncalls < MaxCalls
  /\ heap' = [j \in Ids |-> IF heap[j] = NoObj THEN NoObj ELSE [heap[j] EXCEPT !.two = v]]
  /\ ncalls' = ncalls + 1
  /\ lastHello' = [j \in Ids |-> NoText]
  /\ last' = Call("SetTwo", i, <<v>>, <<>>)
  /\ UNCHANGED out

\* a caller's write to the public member two
SetTwo(i, v) ==
  /\ heap[i] # NoObj
  /\ heap' = [heap EXCEPT ![i].two = v]
  /\ lastHello' = [lastHello EXCEPT ![i] = NoText]
  /\ last' = Call("SetTwo", i, <<v>>, <<>>)
  /\ ncalls < MaxCalls
  /\ ncalls' = ncalls + 1
  /\ UNCHANGED out

\* a caller's write to the public member three
SetThree(i, v) ==
  /\ heap[i] # NoObj
  /\ heap' = [heap EXCEPT ![i].three = v]
  /\ lastHello' = [lastHello EXCEPT ![i] = NoText]
  /\ last' = Call("SetThree", i, <<v>>, <<>>)
  /\ ncalls < MaxCalls
  /\ ncalls' = ncalls + 1
  /\ UNCHANGED out

\* a SayHello that inserts two where one belongs
SayHelloSwapped(i) ==
  /\ heap[i] # NoObj
  /\ ncalls < MaxCalls
  /\ out' = out \o SayHelloText([heap[i] EXCEPT !.one = heap[i].two])
  /\ ncalls' = ncalls + 1
  /\ lastHello' = [lastHello EXCEPT ![i] = SayHelloText([heap[i] EXCEPT !.one = heap[i].two])]
  /\ last' = Call("SayHello", i, <<>>, <<>>)
  /\ UNCHANGED heap

\* a SayHello that counts its calls in one
SayHelloCounts(i) ==
  /\ heap[i] # NoObj
  /\ ncalls < MaxCalls
  /\ out' = out \o SayHelloText(heap[i])
  /\ heap' = [heap EXCEPT ![i].one = @ + 1]
  /\ ncalls' = ncalls + 1
  /\ lastHello' = [lastHello EXCEPT ![i] = SayHelloText(heap[i])]
  /\ last' = Call("SayHello", i, <<>>, <<>>)

\* void HelloClass::SayHello()
SayHello(i) ==
  /\ heap[i] # NoObj
  /\ ncalls < MaxCalls
  /\ out' = out \o SayHelloText(heap[i])
  /\ ncalls' = ncalls + 1
  /\ lastHello' = [lastHello EXCEPT ![i] = SayHelloText(heap[i])]
  /\ last' = Call("SayHello", i, <<>>, <<>>)
  /\ UNCHANGED heap

\* a Say without std::endl
SayNoEndl(i, value) ==
  /\ heap[i] # NoObj
  /\ ncalls < MaxCalls
  /\ out' = out \o value
  /\ ncalls' = ncalls + 1
  /\ last' = Call("Say", i, <<value>>, <<>>)
  /\ UNCHANGED <<heap, lastHello>>

\* a Say that keeps a note in thisIsPrivate
SayTouchesPrivate(i, value) ==
  /\ heap[i] # NoObj
  /\ ncalls < MaxCalls
  /\ out' = out \o SayText(value)
  /\ heap' = [heap EXCEPT ![i].thisIsPrivate = 0]
  /\ ncalls' = ncalls + 1
  /\ last' = Call("Say", i, <<value>>, <<>>)
  /\ UNCHANGED lastHello

\* void HelloClass::Say(const char* value)
Say(i, value) ==
  /\ heap[i] # NoObj
  /\ ncalls < MaxCalls
  /\ out' = out \o SayText(value)
  /\ ncalls' = ncalls + 1
  /\ last' = Call("Say", i, <<value>>, <<>>)
  /\ UNCHANGED <<heap, lastHello>>

\* StaticHello declared without static: it needs a receiver
StaticHelloNeedsInstance ==
  /\ Live # {}
  /\ ncalls < MaxCalls
  /\ out' = out \o StaticHelloText
  /\ ncalls' = ncalls + 1
  /\ last' = Call("StaticHello", 0, <<>>, <<>>)
  /\ UNCHANGED <<heap, lastHello>>

\* static void HelloClass::StaticHello()
StaticHello ==
  /\ ncalls < MaxCalls
  /\ out' = out \o StaticHelloText
  /\ ncalls' = ncalls + 1
  /\ last' = Call("StaticHello", 0, <<>>, <<>>)
  /\ UNCHANGED <<heap, lastHello>>

Next ==
  \/ \E i \in Ids : Construct0(i)
  \/ \E i \in Ids, a \in Int64Vals, b \in Int32Vals, r3 \in DoubleVals, r4 \in PrivVals :
       Construct2(i, a, b, r3, r4)
  \/ \E i \in Ids, a \in Int64Vals, b \in Int32Vals, c \in DoubleVals, r4 \in PrivVals :
       Construct3(i, a, b, c, r4)
  \/ \E i \in Ids : Destroy(i)
  \/ \E i \in Ids, v \in Int64Vals : SetOne(i, v)
  \/ \E i \in Ids, v \in Int32Vals : SetTwo(i, v)
  \/ \E i \in Ids, v \in DoubleVals : SetThree(i, v)
  \/ \E i \in Ids : SayHello(i)
  \/ \E i \in Ids, t \in Texts : Say(i, t)
  \/ StaticHello

Spec == Init /\ [][Next]_vars

\* ------------------------------------------------------------ properties
Ctors   == {"Construct0", "Construct2", "Construct3"}
Setters == {"SetOne", "SetTwo", "SetThree"}
Writers == {"SayHello", "Say", "StaticHello"}

Three == [neg |-> FALSE, m |-> 3, e |-> 0]

\* C1: right after a no-argument construction the new instance has one = 1,
\* two = 2, three = 3 and thisIsPrivate = 4, whatever was constructed or called
\* before.
C1_DefaultConstruction ==
  last.op = "Construct0" =>
    heap[last.id] = [one |-> 1, two |-> 2, three |-> Three, thisIsPrivate |-> 4]

\* a no-argument construction made after another instance was built with other
\* values and after text was written
C1_Witness ==
  /\ last.op = "Construct0"
  /\ out # ""
  /\ \E j \in Live \ {last.id} : heap[j].one # 1 /\ heap[j].thisIsPrivate # 4

\* C2: right after a two-argument construction with (a, b) the new instance has
\* one = a and two = b, while three and thisIsPrivate are not assigned: they hold
\* whatever the storage held, which need not be 3 or 4.
C2_TwoArgConstruction ==
  last.op = "Construct2" =>
    /\ heap[last.id].one = last.args[1]
    /\ heap[last.id].two = last.args[2]
    /\ heap[last.id].three = last.raw[1]
    /\ heap[last.id].thisIsPrivate = last.raw[2]

\* a two-argument construction that left three # 3 and thisIsPrivate # 4
C2_Witness ==
  /\ last.op = "Construct2"
  /\ heap[last.id].one = -12
  /\ heap[last.id].three # Three
  /\ heap[last.id].thisIsPrivate # 4

\* C3: right after a three-argument construction with (a, b, c) the new instance
\* has one = a, two = b and three = c, while thisIsPrivate is not assigned: it
\* holds whatever the storage held, not 4 by any assignment.
C3_ThreeArgConstruction ==
  last.op = "Construct3" =>
    /\ heap[last.id].one = last.args[1]
    /\ heap[last.id].two = last.args[2]
    /\ heap[last.id].three = last.args[3]
    /\ heap[last.id].thisIsPrivate = last.raw[1]

\* a three-argument construction with three = 2.5 that left thisIsPrivate # 4
C3_Witness ==
  /\ last.op = "Construct3"
  /\ last.args = <<105, -7, [neg |-> FALSE, m |-> 25, e |-> -1]>>
  /\ heap[last.id].thisIsPrivate # 4

\* C4: every SayHello appends to standard output exactly
\* "Hello, from HelloClass with", a newline, "one: <one>, two: <two>, and three:
\* <three>" with the receiver's current one, two and three, and one line
\* terminator; nothing else decides the text, and a receiver with one = 1, two = 2,
\* three = 3 gets "one: 1, two: 2, and three: 3".
C4_SayHelloOutput ==
  [][last'.op = "SayHello" =>
       LET o == heap[last'.id] IN
       /\ out' = out \o "Hello, from HelloClass with" \o "\n"
                     \o "one: " \o IntToString(o.one)
                     \o ", two: " \o IntToString(o.two)
                     \o ", and three: " \o DoubleToString(o.three) \o "\n"
       /\ (o.one = 1 /\ o.two = 2 /\ o.three = Three) =>
            out' = out \o "Hello, from HelloClass with\none: 1, two: 2, and three: 3\n"
       /\ (o.one = -12 /\ o.two = -7 /\ o.three = [neg |-> FALSE, m |-> 25, e |-> -1]) =>
            out' = out \o "Hello, from HelloClass with\none: -12, two: -7, and three: 2.5\n"
  ]_vars

\* SayHello on an instance with one = 1, two = 2, three = 3 printed the pinned
\* text, after SayHello on another instance whose thisIsPrivate is not 4
C4_Witness ==
  /\ last.op = "SayHello"
  /\ heap[last.id].one = 1 /\ heap[last.id].two = 2 /\ heap[last.id].three = Three
  /\ \E j \in Live \ {last.id} : lastHello[j] # NoText /\ heap[j].thisIsPrivate # 4

\* C5: every Say with a non-null text t appends to standard output exactly t and
\* one line terminator, whatever the receiver's fields are.
C5_SayOutput ==
  [][last'.op = "Say" => out' = out \o last'.args[1] \o "\n"]_vars

\* Say("test") on an instance that was not default-constructed
C5_Witness ==
  /\ last.op = "Say"
  /\ last.args = <<"test">>
  /\ heap[last.id].one # 1
  /\ heap[last.id].thisIsPrivate # 4

\* C6: StaticHello can be called in every state, also when no instance exists,
\* and every call appends to standard output exactly
\* "Hello, from HelloClass::StaticHello!" and one line terminator.
C6_StaticHello ==
  /\ [](ncalls < MaxCalls => ENABLED StaticHello)
  /\ [][last'.op = "StaticHello" =>
          out' = out \o "Hello, from HelloClass::StaticHello!" \o "\n"]_vars

\* StaticHello called while no instance exists, after earlier calls
C6_Witness ==
  /\ last.op = "StaticHello"
  /\ Live = {}
  /\ ncalls >= 3

\* C7: a SayHello on an instance that already ran SayHello, with no write to its
\* fields since, appends the same text as that earlier call.
C7_SayHelloRepeatable ==
  [][(last'.op = "SayHello" /\ lastHello[last'.id] # NoText) =>
       out' = out \o lastHello[last'.id]]_vars

\* construct, SayHello, Say("test"), SayHello on one instance: the same text twice
C7_Witness ==
  /\ last.op = "SayHello"
  /\ ncalls = 4
  /\ lastHello[last.id] # NoText
  /\ out = lastHello[last.id] \o "test\n" \o lastHello[last.id]

\* C8: destroying an instance appends nothing to standard output and changes
\* no field of any other instance; it only ends the destroyed instance.
C8_DestroyNoEffect ==
  [][last'.op = "Destroy" =>
       /\ out' = out
       /\ heap[last'.id] # NoObj
       /\ heap' = [heap EXCEPT ![last'.id] = NoObj]]_vars

\* an instance destroyed while another one lives and text was written
C8_Witness ==
  /\ last.op = "Destroy"
  /\ Live # {}
  /\ out # ""

\* C9: a construction creates exactly one new instance, and a construction, a
\* write to a public field or a destruction leaves every other instance's fields
\* unchanged.
C9_NoSharedState ==
  [][/\ last'.op \in Ctors =>
          /\ heap[last'.id] = NoObj
          /\ heap'[last'.id] # NoObj
          /\ Cardinality({i \in Ids : heap'[i] # NoObj}) = Cardinality(Live) + 1
     /\ last'.op \in Ctors \cup Setters \cup {"Destroy"} =>
          \A j \in Ids \ {last'.id} : heap'[j] = heap[j]]_vars

\* a write to two of one instance while another instance holds a different two
C9_Witness ==
  /\ last.op = "SetTwo"
  /\ \E j \in Live \ {last.id} : heap[j].two # heap[last.id].two

\* C10: SayHello, Say and StaticHello leave every instance's fields and the set
\* of instances as they were; an instance's fields change only by its
\* construction or by a write to one of its public fields.
C10_OutputOnly ==
  [][/\ last'.op \in Writers => heap' = heap
     /\ \A i \in Ids :
          (heap[i] # NoObj /\ heap'[i] # NoObj /\ heap'[i] # heap[i]) =>
            (last'.op \in Setters /\ last'.id = i)
     /\ \A i \in Ids :
          (heap[i] = NoObj /\ heap'[i] # NoObj) => (last'.op \in Ctors /\ last'.id = i)
  ]_vars

\* an output call made as the fourth call while two instances live
C10_Witness ==
  /\ last.op \in Writers
  /\ ncalls = 4
  /\ Cardinality(Live) = 2

====
